---- MODULE Spec2Model ----
(***************************************************************************)
(* Model of the `hanja` command of gajibot-discord (src/src/main.rs).      *)
(*                                                                         *)
(* A string is a sequence of characters.  A character is a one-token TLA+  *)
(* string; the tokens that stand for longer literals of the source are     *)
(* listed where they are defined.  "W" and "D" stand for two hanja (the    *)
(* spec's example characters), "nbsp" for U+00A0.                          *)
(***************************************************************************)
EXTENDS Integers, Sequences, FiniteSets, TLC

VARIABLES
    data,         \* the Data value built once in setup (client, selectors)
    net,          \* what the upstream answers to each request of a query
    hanja,        \* the command's argument, per invocation
    pc,           \* the await point each invocation is at, or how it ended
    url_back,     \* Option<String>: the entry id the search resolved to
    reading,      \* the reading extracted from the entry page
    document,     \* the parsed supplement fragment
    children,     \* the position of the `children` iterator (elements taken)
    description,  \* the description accumulated so far
    result,       \* the content of the reply message of the invocation
    sent          \* the outbound HTTP requests issued so far, per invocation

vars == <<data, net, hanja, pc, url_back, reading, document, children,
          description, result, sent>>

----------------------------------------------------------------------------
(* Strings *)

None == [some |-> FALSE, val |-> <<>>]

Some(v) == [some |-> TRUE, val |-> v]

\* U+00A0 has the Unicode White_Space property, so str::trim removes it too.
Whitespace == {" ", "\n", "nbsp"}

RECURSIVE trim_start(_)
trim_start(s) ==
    IF s # <<>> /\ Head(s) \in Whitespace THEN trim_start(Tail(s)) ELSE s

RECURSIVE trim_end(_)
trim_end(s) ==
    IF s # <<>> /\ s[Len(s)] \in Whitespace
    THEN trim_end(SubSeq(s, 1, Len(s) - 1))
    ELSE s

trim(s) == trim_end(trim_start(s))

starts_with(s, p) == Len(p) <= Len(s) /\ SubSeq(s, 1, Len(p)) = p

ends_with(s, p) == Len(p) <= Len(s) /\ SubSeq(s, Len(s) - Len(p) + 1, Len(s)) = p

\* The least index at which pat occurs in s, 0 when it does not occur.
find(s, pat) ==
    LET at == {i \in 1..(Len(s) - Len(pat) + 1) : SubSeq(s, i, i + Len(pat) - 1) = pat}
    IN  IF at = {} THEN 0 ELSE CHOOSE i \in at : \A j \in at : i <= j

\* str::split_once: the text before and after the first occurrence of pat.
split_once(s, pat) ==
    LET i == find(s, pat)
    IN  IF i = 0 THEN None
        ELSE Some(<<SubSeq(s, 1, i - 1), SubSeq(s, i + Len(pat), Len(s))>>)

RECURSIVE concat(_)
concat(ss) == IF ss = <<>> THEN <<>> ELSE Head(ss) \o concat(Tail(ss))

----------------------------------------------------------------------------
(* The search resolver *)

\* "/word/view.do?wordid=", which holds no '"': one token.
LinkMarker == <<"/word/view.do?wordid=">>

Quote == <<"\"">>

\* class="txt_emph1"> with its two '"' kept as characters of their own.
EmphMarker == <<"class=", "\"", "txt_emph1", "\"", ">">>

\* The resolver with full equality in place of the prefix test.
entry_eq(search_list, q) ==
    LET a == split_once(search_list, LinkMarker)
    IN  IF ~a.some THEN None
        ELSE LET b == split_once(a.val[2], Quote)
             IN  IF ~b.some THEN None
                 ELSE LET c == split_once(b.val[2], EmphMarker)
                      IN  IF c.some /\ c.val[2] = q
                          THEN Some(b.val[1])
                          ELSE None

\* The value of the 'entry block for a search page and a query.
entry(search_list, q) ==
    LET a == split_once(search_list, LinkMarker)
    IN  IF ~a.some THEN None
        ELSE LET b == split_once(a.val[2], Quote)
             IN  IF ~b.some THEN None
                 ELSE LET c == split_once(b.val[2], EmphMarker)
                      IN  IF c.some /\ starts_with(c.val[2], q)
                          THEN Some(b.val[1])
                          ELSE None

----------------------------------------------------------------------------
(* Documents *)

\* An element below a content element: its class list, its own text runs,
\* and its descendant elements in document order (own text first).
Node(classes, runs, desc) == [classes |-> classes, runs |-> runs, desc |-> desc]

\* A content element: its class attribute as written (or none), its own
\* text runs, and its child elements.
Elem(class, runs, kids) == [class |-> class, runs |-> runs, kids |-> kids]

\* The selectors with the reference selector written as ".txt_refer".
Hanja_new_any_refer ==
    [read    |-> {"txt_read"},
     ruby    |-> {"desc_ruby"},
     reading |-> {"desc_ex"},
     refer   |-> {"txt_refer"}]

\* Selector::parse(".a.b") matches an element carrying every listed class.
Hanja_new ==
    [read    |-> {"txt_read"},
     ruby    |-> {"desc_ruby"},
     reading |-> {"desc_ex"},
     refer   |-> {"txt_refer", "on"}]

matches(selector, node) == selector \subseteq node.classes

\* ElementRef::text(): every descendant text run, in document order.
leaf_text(d) == d.runs

node_text(n) == n.runs \o concat([i \in 1..Len(n.desc) |-> leaf_text(n.desc[i])])

elem_text(e) == e.runs \o concat([i \in 1..Len(e.kids) |-> node_text(e.kids[i])])

\* ElementRef::select(sel): the matching descendants, in document order.
RECURSIVE filter(_, _)
filter(sel, ns) ==
    IF ns = <<>> THEN <<>>
    ELSE IF matches(sel, Head(ns)) THEN <<Head(ns)>> \o filter(sel, Tail(ns))
         ELSE filter(sel, Tail(ns))

select_node(sel, n) == filter(sel, n.desc)

descendants(e) ==
    concat([i \in 1..Len(e.kids) |->
              <<[classes |-> e.kids[i].classes, runs |-> e.kids[i].runs]>>
              \o e.kids[i].desc])

select_elem(sel, e) == filter(sel, descendants(e))

\* root_element().child_elements().flat_map(|elem| elem.child_elements())
flat_map(doc) == concat(doc)

extract_text(runs) == trim(concat(runs))

----------------------------------------------------------------------------
(* The description parser *)

Nbsp == <<"nbsp">>

\* "<:rui:1363124010136764516> ": the emoji literal is one token.
ReferMarker == <<"<:rui:>", " ">>

\* " 《" and "》"; "[[" and "]]" stand for the two glyphs.
FromOpen == <<" ", "[[">>

FromClose == <<"]]">>

\* The split with a run taken as citation when U+00A0 is on either side.
RECURSIVE ruby_text_either(_, _, _)
ruby_text_either(runs, from, phrase) ==
    IF runs = <<>> THEN [from |-> from, phrase |-> phrase]
    ELSE LET s == Head(runs)
         IN  IF starts_with(s, Nbsp) \/ ends_with(s, Nbsp)
             THEN ruby_text_either(Tail(runs), Some(trim(s)), phrase)
             ELSE ruby_text_either(Tail(runs), from, phrase \o s)

\* for s in ruby.text() { ... }: the citation and the phrase of an annotation.
RECURSIVE ruby_text(_, _, _)
ruby_text(runs, from, phrase) ==
    IF runs = <<>> THEN [from |-> from, phrase |-> phrase]
    ELSE LET s == Head(runs)
         IN  IF starts_with(s, Nbsp) /\ ends_with(s, Nbsp)
             THEN ruby_text(Tail(runs), Some(trim(s)), phrase)
             ELSE ruby_text(Tail(runs), from, phrase \o s)

\* The block of one li with the citation written before the reading.
li_block_swapped(sel, li) ==
    LET rubies  == select_node(sel.ruby, li)
        example == select_node(sel.reading, li)
    IN  IF rubies = <<>> THEN <<>>
        ELSE LET r == ruby_text(leaf_text(rubies[1]), None, <<>>)
             IN  <<">", " ">>
                 \o trim(r.phrase)
                 \o (IF r.from.some THEN FromOpen \o r.from.val \o FromClose ELSE <<>>)
                 \o (IF example # <<>>
                     THEN <<"(">> \o extract_text(leaf_text(example[1])) \o <<")">>
                     ELSE <<>>)
                 \o <<"\n">>

\* The body of `for li in child.child_elements()`: what one li appends.
li_block(sel, li) ==
    LET rubies  == select_node(sel.ruby, li)
        example == select_node(sel.reading, li)
    IN  IF rubies = <<>> THEN <<>>
        ELSE LET r == ruby_text(leaf_text(rubies[1]), None, <<>>)
             IN  <<">", " ">>
                 \o trim(r.phrase)
                 \o (IF example # <<>>
                     THEN <<"(">> \o extract_text(leaf_text(example[1])) \o <<")">>
                     ELSE <<>>)
                 \o (IF r.from.some THEN FromOpen \o r.from.val \o FromClose ELSE <<>>)
                 \o <<"\n">>

item_example(sel, child) ==
    concat([i \in 1..Len(child.kids) |-> li_block(sel, child.kids[i])])

ex_refer(sel, child) ==
    LET refers == select_elem(sel.refer, child)
    IN  ReferMarker
        \o concat([i \in 1..Len(refers) |-> extract_text(leaf_text(refers[i]))])
        \o <<"\n">>

\* The wrap_ex branch peeking at the next element without taking it.
wrap_ex_peek(child, rest) ==
    [text  |-> extract_text(elem_text(child))
               \o (IF rest # <<>>
                   THEN <<" ">> \o extract_text(elem_text(Head(rest)))
                   ELSE <<>>)
               \o <<"\n">>,
     taken |-> 0]

\* The wrap_ex branch: `rest` is what the iterator still holds after child.
wrap_ex(child, rest) ==
    [text  |-> extract_text(elem_text(child))
               \o (IF rest # <<>>
                   THEN <<" ">> \o extract_text(elem_text(Head(rest)))
                   ELSE <<>>)
               \o <<"\n">>,
     taken |-> IF rest # <<>> THEN 1 ELSE 0]

\* The iteration with the class attribute tested for its first class only.
loop_body_first_class(sel, flat, taken, desc) ==
    LET child == flat[taken + 1]
        rest  == SubSeq(flat, taken + 2, Len(flat))
        is(c) == child.class.some /\ starts_with(child.class.val, <<c>>)
    IN  IF is("wrap_ex")
        THEN [children    |-> taken + 1 + wrap_ex(child, rest).taken,
              description |-> desc \o wrap_ex(child, rest).text]
        ELSE IF is("item_example")
        THEN [children    |-> taken + 1,
              description |-> desc \o item_example(sel, child)]
        ELSE IF is("ex_refer")
        THEN [children    |-> taken + 1,
              description |-> desc \o ex_refer(sel, child)]
        ELSE [children    |-> taken + 1,
              description |-> desc]

\* One iteration of `while let Some(child) = children.next()`, with `taken`
\* elements already drawn from the iterator over `flat`.
loop_body(sel, flat, taken, desc) ==
    LET child == flat[taken + 1]
        rest  == SubSeq(flat, taken + 2, Len(flat))
    IN  IF child.class = Some(<<"wrap_ex">>)
        THEN [children    |-> taken + 1 + wrap_ex(child, rest).taken,
              description |-> desc \o wrap_ex(child, rest).text]
        ELSE IF child.class = Some(<<"item_example">>)
        THEN [children    |-> taken + 1,
              description |-> desc \o item_example(sel, child)]
        ELSE IF child.class = Some(<<"ex_refer">>)
        THEN [children    |-> taken + 1,
              description |-> desc \o ex_refer(sel, child)]
        ELSE [children    |-> taken + 1,
              description |-> desc]

\* The whole loop: the description once the iterator is exhausted.
RECURSIVE run_loop(_, _, _, _)
run_loop(sel, flat, taken, desc) ==
    IF taken < Len(flat)
    THEN LET st == loop_body(sel, flat, taken, desc)
         IN  run_loop(sel, flat, st.children, st.description)
    ELSE desc

----------------------------------------------------------------------------
(* The command *)

Host == <<"https://dic.daum.net">>

Request(url, ref) == [url |-> url, referer |-> ref]

search_url(h) == Host \o <<"/search.do?dic=hanja&q=">> \o h

referer(id) == Host \o LinkMarker \o id

supword_url(id) == Host \o <<"/word/view_supword.do?suptype=KUMSUNG_HH&wordid=">> \o id

Searching(h) == <<"Searching for ">> \o h \o <<" <a:Loading:>">>

NoResult == <<"No result">>

Content(h, r, d) == <<"#", " ">> \o h \o <<"\n", "**">> \o trim(r) \o <<"**", "\n">> \o d

Terminal == {"Ok", "Err", "panicked"}

NumInvocations == 2

Least(S) == CHOOSE i \in S : \A j \in S : i <= j

\* The invocations that may run at once; a specification starts some of them.
Slots == 1..NumInvocations

Invoked(q) == q \in DOMAIN pc

\* ctx.reply(...).await?
Reply(q) ==
    /\ Invoked(q)
    /\ pc[q] = "reply"
    /\ IF net[q].reply
       THEN /\ result' = [result EXCEPT ![q] = Searching(hanja[q])]
            /\ pc' = [pc EXCEPT ![q] = "search"]
       ELSE /\ pc' = [pc EXCEPT ![q] = "Err"]
            /\ UNCHANGED result
    /\ UNCHANGED <<data, net, hanja, url_back, reading, document, children,
                   description, sent>>

\* The 'entry block: the search request and the resolution of its body.
Search(q) ==
    /\ Invoked(q)
    /\ pc[q] = "search"
    /\ sent' = [sent EXCEPT ![q] = Append(@, Request(search_url(hanja[q]), None))]
    /\ IF net[q].search.ok
       THEN /\ url_back' = [url_back EXCEPT ![q] = entry(net[q].search.body, hanja[q])]
            /\ pc' = [pc EXCEPT ![q] = IF url_back'[q].some THEN "entry" ELSE "no_result"]
       ELSE /\ pc' = [pc EXCEPT ![q] = "Err"]
            /\ UNCHANGED url_back
    /\ UNCHANGED <<data, net, hanja, reading, document, children, description, result>>

\* The else branch of let-else: result.edit("No result").await?; return Ok(()).
NoResultEdit(q) ==
    /\ Invoked(q)
    /\ pc[q] = "no_result"
    /\ IF net[q].edit
       THEN /\ result' = [result EXCEPT ![q] = NoResult]
            /\ pc' = [pc EXCEPT ![q] = "Ok"]
       ELSE /\ pc' = [pc EXCEPT ![q] = "Err"]
            /\ UNCHANGED result
    /\ UNCHANGED <<data, net, hanja, url_back, reading, document, children,
                   description, sent>>

\* document.select(&read).next().unwrap().text().collect::<String>()
read_text(sel, response) ==
    LET found == filter(sel.read, response)
    IN  IF found = <<>> THEN None ELSE Some(concat(leaf_text(found[1])))

\* The entry-page step going on to the supplement after a failed request.
Entry_unchecked(q) ==
    /\ Invoked(q)
    /\ pc[q] = "entry"
    /\ sent' = [sent EXCEPT ![q] = Append(@, Request(referer(url_back[q].val), None))]
    /\ pc' = [pc EXCEPT ![q] = "supplement"]
    /\ UNCHANGED <<data, net, hanja, url_back, reading, document, children,
                   description, result>>

\* The entry-page request and the extraction of the reading.  unwrap() on
\* None panics: the future unwinds and returns neither Ok nor Err.  The
\* panic unwinds the task of this invocation only; the others go on.
Entry(q) ==
    /\ Invoked(q)
    /\ pc[q] = "entry"
    /\ sent' = [sent EXCEPT ![q] = Append(@, Request(referer(url_back[q].val), None))]
    /\ IF net[q].entry.ok
       THEN LET r == read_text(data.hanja, net[q].entry.body)
            IN  IF r.some
                THEN /\ reading' = [reading EXCEPT ![q] = r.val]
                     /\ pc' = [pc EXCEPT ![q] = "supplement"]
                ELSE /\ pc' = [pc EXCEPT ![q] = "panicked"]
                     /\ UNCHANGED reading
       ELSE /\ pc' = [pc EXCEPT ![q] = "Err"]
            /\ UNCHANGED reading
    /\ UNCHANGED <<data, net, hanja, url_back, document, children, description, result>>

\* The supplement request, sent with the entry URL as Referer, and the
\* parse of its body into the fragment the loop walks.
Supplement(q) ==
    /\ Invoked(q)
    /\ pc[q] = "supplement"
    /\ sent' = [sent EXCEPT ![q] =
                  Append(@, Request(supword_url(url_back[q].val),
                                    Some(referer(url_back[q].val))))]
    /\ IF net[q].supword.ok
       THEN /\ document' = [document EXCEPT ![q] = net[q].supword.body]
            /\ children' = [children EXCEPT ![q] = 0]
            /\ description' = [description EXCEPT ![q] = <<>>]
            /\ pc' = [pc EXCEPT ![q] = "loop"]
       ELSE /\ pc' = [pc EXCEPT ![q] = "Err"]
            /\ UNCHANGED <<document, children, description>>
    /\ UNCHANGED <<data, net, hanja, url_back, reading, result>>

\* The loop with the description kept in one buffer all invocations share.
Loop_shared(q) ==
    /\ Invoked(q)
    /\ pc[q] = "loop"
    /\ IF children[q] < Len(flat_map(document[q]))
       THEN LET st == loop_body(data.hanja, flat_map(document[q]), children[q],
                                description[q])
            IN  /\ children' = [children EXCEPT ![q] = st.children]
                /\ description' = [p \in DOMAIN description |-> st.description]
                /\ UNCHANGED pc
       ELSE /\ pc' = [pc EXCEPT ![q] = "edit"]
            /\ UNCHANGED <<children, description>>
    /\ UNCHANGED <<data, net, hanja, url_back, reading, document, result, sent>>

\* while let Some(child) = children.next() { ... }
Loop(q) ==
    /\ Invoked(q)
    /\ pc[q] = "loop"
    /\ IF children[q] < Len(flat_map(document[q]))
       THEN LET st == loop_body(data.hanja, flat_map(document[q]), children[q],
                                description[q])
            IN  /\ children' = [children EXCEPT ![q] = st.children]
                /\ description' = [description EXCEPT ![q] = st.description]
                /\ UNCHANGED pc
       ELSE /\ pc' = [pc EXCEPT ![q] = "edit"]
            /\ UNCHANGED <<children, description>>
    /\ UNCHANGED <<data, net, hanja, url_back, reading, document, result, sent>>

\* result.edit(... "# {hanja}\n**{reading}**\n{description}" ...).await?; Ok(())
Edit(q) ==
    /\ Invoked(q)
    /\ pc[q] = "edit"
    /\ IF net[q].edit
       THEN /\ result' = [result EXCEPT ![q] =
                            Content(hanja[q], reading[q], description[q])]
            /\ pc' = [pc EXCEPT ![q] = "Ok"]
       ELSE /\ pc' = [pc EXCEPT ![q] = "Err"]
            /\ UNCHANGED result
    /\ UNCHANGED <<data, net, hanja, url_back, reading, document, children,
                   description, sent>>

Next ==
    \E q \in Slots :
        \/ Reply(q)
        \/ Search(q)
        \/ NoResultEdit(q)
        \/ Entry(q)
        \/ Supplement(q)
        \/ Loop(q)
        \/ Edit(q)

----------------------------------------------------------------------------
(* Upstream responses and initial states                                   *)
(*                                                                         *)
(* net[q] holds the answer the upstream gives to each request of           *)
(* invocation q, whenever the request is issued; an action that issues a   *)
(* request reads its answer there.  reply and edit tell whether Discord    *)
(* accepts the placeholder message and the later edit.                     *)

Failed == [ok |-> FALSE, body |-> <<>>]

Body(b) == [ok |-> TRUE, body |-> b]

Net(reply, search, ent, supword, edit) ==
    [reply |-> reply, search |-> search, entry |-> ent, supword |-> supword,
     edit |-> edit]

W == <<"W">>

WD == <<"W", "D">>

\* Search pages: a hit for W, a hit for W under another id, a page whose
\* first headword is another character, a page without results.
HitA == LinkMarker \o <<"A">> \o Quote \o <<">">> \o EmphMarker \o WD

HitB == LinkMarker \o <<"B">> \o Quote \o EmphMarker \o W

Miss == LinkMarker \o <<"A">> \o Quote \o EmphMarker \o <<"D">> \o HitB

Empty == <<"<", "html", ">">>

\* Entry pages: with a reading, and without one.
WithRead == <<[classes |-> {"txt_emph1"}, runs |-> <<W>>],
              [classes |-> {"txt_read"}, runs |-> << <<" ", "s">>, <<"u", "\n">> >>]>>

WithoutRead == <<[classes |-> {"txt_emph1"}, runs |-> <<W>>]>>

Span(classes, text) == [classes |-> classes, runs |-> <<text>>]

Plain(class, text) == Elem(class, <<text>>, <<>>)

Ruby(runs) == [classes |-> {"desc_ruby"}, runs |-> runs]

Ex == Span({"desc_ex"}, <<" ", "r", " ">>)

Li(desc) == Node({}, <<>>, desc)

ItemExample(lis) == Elem(Some(<<"item_example">>), <<>>, lis)

ExRefer(kids) == Elem(Some(<<"ex_refer">>), <<>>, kids)

On == {"txt_refer", "on"}

SimpleElems ==
    { Plain(Some(<<"wrap_ex">>), <<" ", "a", " ">>),
      Plain(Some(<<"wrap_ex">>), <<"b">>),
      Plain(Some(<<"memo">>), <<"c">>),
      Plain(None, <<"d">>),
      Plain(Some(<<"wrap_ex", " ", "on">>), <<"e">>),
      ItemExample(<<Li(<<Ruby(<< <<"p">> >>), Ex>>)>>),
      ExRefer(<<Node(On, << <<"A">> >>, <<>>), Node(On, << <<"B">> >>, <<>>)>>) }

SmallDoc ==
    << <<Plain(Some(<<"wrap_ex">>), <<"b">>)>>,
       <<Plain(Some(<<"memo">>), <<"c">>),
         ExRefer(<<Node(On, << <<"A">> >>, <<>>)>>)>> >>

OtherDoc ==
    << <<>>,
       <<Plain(Some(<<"wrap_ex">>), <<" ", "a", " ">>),
         ItemExample(<<Li(<<Ruby(<< <<"p">> >>), Ex>>)>>),
         ItemExample(<<Li(<<Ruby(<< <<"p">> >>), Ex>>)>>)>> >>

\* What the upstream answers to one invocation, up to the first request
\* that fails: the answers to requests never issued are left out.
Scenarios ==
    { Net(FALSE, Failed, Failed, Failed, FALSE),
      Net(TRUE, Failed, Failed, Failed, FALSE),
      Net(TRUE, Body(Empty), Failed, Failed, TRUE),
      Net(TRUE, Body(Miss), Failed, Failed, TRUE),
      Net(TRUE, Body(Miss), Failed, Failed, FALSE),
      Net(TRUE, Body(HitA), Failed, Failed, FALSE),
      Net(TRUE, Body(HitB), Body(WithoutRead), Failed, FALSE),
      Net(TRUE, Body(HitA), Body(WithRead), Failed, FALSE),
      Net(TRUE, Body(HitA), Body(WithRead), Body(SmallDoc), FALSE),
      Net(TRUE, Body(HitA), Body(WithRead), Body(SmallDoc), TRUE),
      Net(TRUE, Body(HitB), Body(WithRead), Body(OtherDoc), TRUE) }

Input(h, n) == [hanja |-> h, net |-> n]

\* The state after setup, as the invocations in DOMAIN in are dispatched.
Start(in) ==
    /\ data = [client |-> "reqwest::Client", hanja |-> Hanja_new]
    /\ hanja = [q \in DOMAIN in |-> in[q].hanja]
    /\ net = [q \in DOMAIN in |-> in[q].net]
    /\ pc = [q \in DOMAIN in |-> "reply"]
    /\ url_back = [q \in DOMAIN in |-> None]
    /\ reading = [q \in DOMAIN in |-> <<>>]
    /\ document = [q \in DOMAIN in |-> <<>>]
    /\ children = [q \in DOMAIN in |-> 0]
    /\ description = [q \in DOMAIN in |-> <<>>]
    /\ result = [q \in DOMAIN in |-> <<>>]
    /\ sent = [q \in DOMAIN in |-> <<>>]

\* One invocation of the query W under one of the scenarios.
InitScenario == \E n \in Scenarios : Start(<<Input(W, n)>>)

Init == \E in \in [Slots -> {Input(W, n) : n \in Scenarios}] : Start(in)

Spec == Init /\ [][Next]_vars

----------------------------------------------------------------------------
(* Search pages for the resolver *)

MaxChunks == 2

\* The i-th stretch of a search page: an entry link with the id `i`, its
\* closing quote, a headword marker (whole, or cut after its first quote)
\* and a headword, each of which may be missing.
Chunk(i, link, quote, emph, head) ==
    (IF link THEN LinkMarker ELSE <<>>)
    \o <<ToString(i)>>
    \o (IF quote THEN Quote ELSE <<>>)
    \o emph
    \o head

Emphs == {<<>>, EmphMarker, <<"class=", "\"">>}

Heads == {<<>>, W, WD, <<"D">>}

\* What a stretch may hold; a stretch may also be absent from the page.
Stretches ==
    [present : {TRUE}, link : BOOLEAN, quote : BOOLEAN, emph : Emphs, head : Heads]
    \cup {[present |-> FALSE, link |-> FALSE, quote |-> FALSE, emph |-> <<>>, head |-> <<>>]}

Page(f) ==
    concat([i \in DOMAIN f |->
              IF f[i].present
              THEN Chunk(i, f[i].link, f[i].quote, f[i].emph, f[i].head)
              ELSE <<>>])

\* One invocation whose entry page and supplement are fixed.
InitResolve ==
    \/ InitScenario
    \/ \E h \in {W, WD}, f \in [1..MaxChunks -> Stretches] :
          Start(<<Input(h, Net(TRUE, Body(Page(f)), Body(WithRead), Body(SmallDoc), TRUE))>>)

SpecResolve == InitResolve /\ [][Next]_vars

----------------------------------------------------------------------------
(* Claims about the search resolver *)

Occurrences(s, pat) ==
    {i \in 1..Len(s) : i + Len(pat) - 1 <= Len(s) /\ SubSeq(s, i, i + Len(pat) - 1) = pat}

\* The search of invocation q has been answered with a page.
Searched(q) == q \in DOMAIN pc /\ sent[q] # <<>> /\ net[q].search.ok

FirstLinks(s) == Occurrences(s, LinkMarker)

NoMarkers == [found |-> FALSE, id |-> <<>>, headword |-> <<>>]

\* The first link marker of the page, the first '"' after it and the first
\* headword marker after that '"': the text between the first two, and
\* the text after the third.
Markers(s) ==
    LET links == FirstLinks(s)
    IN  IF links = {} THEN NoMarkers
        ELSE LET i      == Least(links)
                 quotes == {j \in Occurrences(s, Quote) : j > i}
             IN  IF quotes = {} THEN NoMarkers
                 ELSE LET j     == Least(quotes)
                          emphs == {k \in Occurrences(s, EmphMarker) : k > j}
                      IN  IF emphs = {} THEN NoMarkers
                          ELSE [found    |-> TRUE,
                                id       |-> SubSeq(s, i + 1, j - 1),
                                headword |-> SubSeq(s, Least(emphs) + Len(EmphMarker),
                                                    Len(s))]

IsPrefix(p, s) == Len(p) <= Len(s) /\ \A i \in 1..Len(p) : s[i] = p[i]

Accepts(s, h) == Markers(s).found /\ IsPrefix(h, Markers(s).headword)

IdText(s) == Markers(s).id

Headword(s) == Markers(s).headword

\* C1: the search resolves to an entry id exactly when the page holds the
\* link marker, then a closing quote, then the headword marker, and the text
\* after that marker starts with the query; the id is the text between the
\* first link marker and the next quote.  Otherwise nothing is resolved, no
\* further request is issued, and an invocation that returns Ok has edited
\* its reply to "No result".
C1_AcceptPredicate ==
    \A q \in Slots :
        Searched(q) =>
            LET s  == net[q].search.body
                h  == hanja[q]
                m  == Markers(s)
                ok == m.found /\ IsPrefix(h, m.headword)
            IN  /\ url_back[q] = IF ok THEN Some(m.id) ELSE None
                /\ ~ok =>
                      /\ pc[q] \in {"no_result", "Ok", "Err"}
                      /\ Len(sent[q]) = 1
                      /\ pc[q] = "Ok" => result[q] = NoResult
                      /\ pc[q] # "Ok" => result[q] = Searching(h)

\* A query matched by prefix and not by equality has been accepted.
C1_Witness ==
    \E q \in Slots :
        /\ Searched(q)
        /\ hanja[q] = W
        /\ Accepts(net[q].search.body, W)
        /\ Headword(net[q].search.body) = WD
        /\ url_back[q] = Some(<<"1">>)
        /\ pc[q] = "Ok"

\* The first candidate of a page: from the first link marker up to the
\* next link marker (or the end of the page).
FirstCandidate(s) ==
    LET links == FirstLinks(s)
        i1    == Least(links)
        later == links \ {i1}
    IN  SubSeq(s, i1, IF later = {} THEN Len(s) ELSE Least(later) - 1)

\* The first candidate carries a headword that starts with the query.
FirstCandidateMatches(s, h) ==
    /\ FirstLinks(s) # {}
    /\ Accepts(FirstCandidate(s), h)

\* C2: whenever the first candidate's headword does not start with the
\* query, the search resolves to nothing, whatever the later candidates of
\* the page hold; the id resolved is never that of a later candidate.
C2_FirstCandidateOnly ==
    \A q \in Slots :
        Searched(q) =>
            /\ ~FirstCandidateMatches(net[q].search.body, hanja[q]) => ~url_back[q].some
            /\ url_back[q].some => url_back[q].val = IdText(net[q].search.body)

----------------------------------------------------------------------------
(* Supplement fragments for the description parser *)

MaxElems == 3

MaxRuns == 2

MaxLi == 2

MaxSpans == 3

\* The wrapper elements over a flattened sequence: a wrapper ends after
\* each position of cuts (position 0 or Len(flat) gives an empty wrapper).
RECURSIVE Wrappers(_, _, _)
Wrappers(flat, from, cuts) ==
    IF cuts = {} THEN <<SubSeq(flat, from + 1, Len(flat))>>
    ELSE LET c == Least(cuts)
         IN  <<SubSeq(flat, from + 1, c)>> \o Wrappers(flat, c, cuts \ {c})

\* Text runs of a phonetic annotation: plain, with U+00A0 on one side or
\* inside, and enclosed in U+00A0 (with and without inner whitespace).
RunPool ==
    { <<" ", "a">>, <<"b", "nbsp">>, <<"e", "nbsp", "e">>,
      <<"nbsp", "c", "nbsp">>, <<"nbsp", " ", "d", "nbsp">> }

LiPool ==
    { Li(<<>>),
      Li(<<Ex>>),
      Li(<<Ruby(<< <<"p">> >>)>>),
      Li(<<Ruby(<< <<"p", " ">>, <<"q">> >>), Ex>>),
      Li(<<Ex, Ruby(<< <<"nbsp", "s", "nbsp">>, <<"p">> >>), Ruby(<< <<"x">> >>)>>) }

SpanPool ==
    { Node(c, <<t>>, <<>>) :
        c \in {On, {"txt_refer"}, {"on"}}, t \in {<<"A">>, <<" ", "B", " ">>} }
    \cup { Node({"list"}, << <<"c">> >>, <<Span(On, <<"C">>), Span({"txt_refer"}, <<"x">>)>>) }

\* One invocation, with the search and the entry page fixed, over fragment d.
StartParse(d) == Start(<<Input(W, Net(TRUE, Body(HitA), Body(WithRead), Body(d), TRUE))>>)

\* The fragments: sequences of simple elements cut into wrappers in every
\* way, one item_example over an annotation of any runs, one item_example
\* over any children, one ex_refer over any spans.
InitParse ==
    \/ InitScenario
    \/ \E n \in 0..MaxElems :
          \E flat \in [1..n -> SimpleElems], cuts \in SUBSET (0..n) :
              StartParse(Wrappers(flat, 0, cuts))
    \/ \E n \in 0..MaxRuns :
          \E runs \in [1..n -> RunPool], tail \in {<<>>, <<Ex>>} :
              StartParse(<< <<ItemExample(<<Li(<<Ruby(runs)>> \o tail)>>)>> >>)
    \/ \E n \in 0..MaxLi :
          \E lis \in [1..n -> LiPool] : StartParse(<< <<ItemExample(lis)>> >>)
    \/ \E n \in 0..MaxSpans :
          \E kids \in [1..n -> SpanPool] : StartParse(<< <<ExRefer(kids)>> >>)

SpecParse == InitParse /\ [][Next]_vars

----------------------------------------------------------------------------
(* Claims about the description parser *)

Greatest(S) == CHOOSE i \in S : \A j \in S : j <= i

\* s without its leading and trailing whitespace.
Trimmed(s) ==
    LET ink == {i \in 1..Len(s) : s[i] \notin Whitespace}
    IN  IF ink = {} THEN <<>> ELSE SubSeq(s, Least(ink), Greatest(ink))

TextOf(e) == Trimmed(concat(elem_text(e)))

Flat(q) == flat_map(document[q])

\* Invocation q is in the loop with an element left, which it takes in this step.
Takes(q) ==
    /\ q \in DOMAIN pc
    /\ pc[q] = "loop"
    /\ children[q] < Len(Flat(q))
    /\ children'[q] # children[q]

Child(q) == Flat(q)[children[q] + 1]

HasClass(e, c) == e.class.some /\ e.class.val = <<c>>

Known(e) == HasClass(e, "wrap_ex") \/ HasClass(e, "item_example") \/ HasClass(e, "ex_refer")

\* C3: an element classified wrap_ex appends exactly one line: its trimmed
\* text, then, exactly when a next content element exists, a space and that
\* element's trimmed text, then a line break; the next element is taken
\* from the iterator by the merge whatever its class, and a wrap_ex that is
\* last is emitted alone.
C3_PlainExampleMerge ==
    [][\A q \in Slots :
         (Takes(q) /\ HasClass(Child(q), "wrap_ex")) =>
            LET i == children[q] + 1
            IN  IF i < Len(Flat(q))
                THEN /\ description'[q] =
                           description[q] \o TextOf(Flat(q)[i]) \o <<" ">>
                           \o TextOf(Flat(q)[i + 1]) \o <<"\n">>
                     /\ children'[q] = i + 1
                ELSE /\ description'[q] = description[q] \o TextOf(Flat(q)[i]) \o <<"\n">>
                     /\ children'[q] = i]_vars

\* A wrap_ex element has been merged with the unknown element after it.
C3_Witness ==
    \E q \in Slots :
        /\ q \in DOMAIN pc
        /\ pc[q] = "loop"
        /\ Flat(q) = <<Plain(Some(<<"wrap_ex">>), <<" ", "a", " ">>),
                       Plain(Some(<<"memo">>), <<"c">>)>>
        /\ children[q] = 2
        /\ description[q] = <<"a", " ", "c", "\n">>

HasRuby(li) == \E i \in 1..Len(li.desc) : "desc_ruby" \in li.desc[i].classes

FirstOf(li, c) == li.desc[Least({i \in 1..Len(li.desc) : c \in li.desc[i].classes})]

HasEx(li) == \E i \in 1..Len(li.desc) : "desc_ex" \in li.desc[i].classes

\* The block of a child: bullet, phrase, (reading), citation, line break.
Block(li, phrase, cited, citation) ==
    <<">", " ">> \o Trimmed(phrase)
    \o (IF HasEx(li)
        THEN <<"(">> \o Trimmed(concat(FirstOf(li, "desc_ex").runs)) \o <<")">>
        ELSE <<>>)
    \o (IF cited THEN <<" ", "[[">> \o citation \o <<"]]">> ELSE <<>>)
    \o <<"\n">>

RubyOf(li) == ruby_text(FirstOf(li, "desc_ruby").runs, None, <<>>)

\* C4: an item_example element emits one newline-terminated block per child
\* holding a .desc_ruby element, in child order, and nothing for the other
\* children; a block is "> ", the trimmed phrase, "(reading)" exactly when
\* the child holds a .desc_ex element, the citation in its glyph pair
\* exactly when one was found, and a line break.
C4_ItemExampleBlocks ==
    [][\A q \in Slots :
         (Takes(q) /\ HasClass(Child(q), "item_example")) =>
            LET lis == Child(q).kids
            IN  /\ description'[q] =
                      description[q]
                      \o concat([i \in 1..Len(lis) |->
                                   IF HasRuby(lis[i])
                                   THEN Block(lis[i], RubyOf(lis[i]).phrase,
                                              RubyOf(lis[i]).from.some,
                                              RubyOf(lis[i]).from.val)
                                   ELSE <<>>])
                /\ children'[q] = children[q] + 1]_vars

\* A child with a phrase, a reading and a citation has been emitted.
C4_Witness ==
    \E q \in Slots :
        /\ q \in DOMAIN pc
        /\ pc[q] = "loop"
        /\ Flat(q) = <<ItemExample(<<Li(<<Ex, Ruby(<< <<"nbsp", "s", "nbsp">>, <<"p">> >>),
                                         Ruby(<< <<"x">> >>)>>)>>)>>
        /\ children[q] = 1
        /\ description[q] = <<">", " ", "p", "(", "r", ")", " ", "[[", "s", "]]", "\n">>

\* Both the first and the last character of the run are U+00A0.
Enclosed(run) == run # <<>> /\ run[1] = "nbsp" /\ run[Len(run)] = "nbsp"

RECURSIVE Others(_)
Others(runs) ==
    IF runs = <<>> THEN <<>>
    ELSE (IF Enclosed(Head(runs)) THEN <<>> ELSE Head(runs)) \o Others(Tail(runs))

EnclosedAt(runs) == {i \in 1..Len(runs) : Enclosed(runs[i])}

\* The run without the U+00A0 characters at its two ends.
StripNbsp(run) ==
    LET ink == {i \in 1..Len(run) : run[i] # "nbsp"}
    IN  IF ink = {} THEN <<>> ELSE SubSeq(run, Least(ink), Greatest(ink))

RubyRuns(li) == FirstOf(li, "desc_ruby").runs

\* The blocks the claim as written allows for a child: the citation is an
\* enclosed run without its enclosing U+00A0, the phrase the other runs.
StatedBlocks(li) ==
    IF ~HasRuby(li) THEN {<<>>}
    ELSE IF EnclosedAt(RubyRuns(li)) = {}
    THEN {Block(li, Others(RubyRuns(li)), FALSE, <<>>)}
    ELSE {Block(li, Others(RubyRuns(li)), TRUE, StripNbsp(RubyRuns(li)[i])) :
            i \in EnclosedAt(RubyRuns(li))}

RECURSIVE StatedOutputs(_)
StatedOutputs(lis) ==
    IF lis = <<>> THEN {<<>>}
    ELSE {b \o o : b \in StatedBlocks(Head(lis)), o \in StatedOutputs(Tail(lis))}

\* C5 as stated: a run is the citation exactly when its first and last
\* characters are U+00A0, the citation is that run with its enclosing
\* U+00A0 stripped, and the phrase is the other runs in document order.
C5_AsStated ==
    [][\A q \in Slots :
         (Takes(q) /\ HasClass(Child(q), "item_example")) =>
            \E o \in StatedOutputs(Child(q).kids) :
                description'[q] = description[q] \o o]_vars

\* C5 as amended: the runs whose first and last characters are U+00A0 are
\* the citation candidates; the citation is the last of them with all its
\* leading and trailing whitespace trimmed (U+00A0 included), the earlier
\* ones are discarded; the phrase is the other runs in document order.
C5_CitationSplit ==
    [][\A q \in Slots :
         (Takes(q) /\ HasClass(Child(q), "item_example")) =>
            LET lis == Child(q).kids
                cites(li) == EnclosedAt(RubyRuns(li))
            IN  description'[q] =
                   description[q]
                   \o concat([i \in 1..Len(lis) |->
                                IF HasRuby(lis[i])
                                THEN Block(lis[i], Others(RubyRuns(lis[i])),
                                           cites(lis[i]) # {},
                                           IF cites(lis[i]) = {} THEN <<>>
                                           ELSE Trimmed(RubyRuns(lis[i])[Greatest(cites(lis[i]))]))
                                ELSE <<>>])]_vars

\* An annotation with a plain run, then an enclosed run with inner
\* whitespace, has been split and emitted.
C5_Witness ==
    \E q \in Slots :
        /\ q \in DOMAIN pc
        /\ pc[q] = "loop"
        /\ Flat(q) = <<ItemExample(<<Li(<<Ruby(<< <<" ", "a">>,
                                               <<"nbsp", " ", "d", "nbsp">> >>)>>)>>)>>
        /\ children[q] = 1
        /\ description[q] = <<">", " ", "a", " ", "[[", "d", "]]", "\n">>

Active(e) ==
    LET ds == descendants(e)
    IN  [i \in 1..Len(ds) |->
           IF "txt_refer" \in ds[i].classes /\ "on" \in ds[i].classes
           THEN Trimmed(concat(ds[i].runs))
           ELSE <<>>]

\* C6: an ex_refer element emits one block: the glyph marker and a space,
\* the trimmed texts of its descendants matching .txt_refer.on in document
\* order with no separator, and a line break; the other descendants
\* contribute nothing.
C6_CrossReference ==
    [][\A q \in Slots :
         (Takes(q) /\ HasClass(Child(q), "ex_refer")) =>
            /\ description'[q] =
                  description[q] \o <<"<:rui:>", " ">> \o concat(Active(Child(q))) \o <<"\n">>
            /\ children'[q] = children[q] + 1]_vars

\* Two active references "A" and "B" after an inactive one gave "<marker> AB".
C6_Witness ==
    \E q \in Slots :
        /\ q \in DOMAIN pc
        /\ pc[q] = "loop"
        /\ Flat(q) = <<ExRefer(<<Node({"txt_refer"}, << <<"A">> >>, <<>>),
                                 Node(On, << <<"A">> >>, <<>>),
                                 Node(On, << <<" ", "B", " ">> >>, <<>>)>>)>>
        /\ children[q] = 1
        /\ description[q] = <<"<:rui:>", " ", "A", "B", "\n">>

\* The sequence without the elements of unknown class the classifier meets
\* (those taken as the continuation of a wrap_ex stay).
RECURSIVE WithoutUnknown(_)
WithoutUnknown(flat) ==
    IF flat = <<>> THEN <<>>
    ELSE IF HasClass(Head(flat), "wrap_ex")
    THEN SubSeq(flat, 1, IF Len(flat) > 1 THEN 2 ELSE 1)
         \o WithoutUnknown(SubSeq(flat, 3, Len(flat)))
    ELSE IF Known(Head(flat)) THEN <<Head(flat)>> \o WithoutUnknown(Tail(flat))
    ELSE WithoutUnknown(Tail(flat))

\* C7: an element whose class is none of the three, met by the classifier,
\* leaves the description unchanged and the loop goes on with the next
\* element; the description of a sequence is that of the sequence without
\* such elements.
C7_UnknownSkipped ==
    [][\A q \in Slots :
         /\ (Takes(q) /\ ~Known(Child(q))) =>
               /\ description'[q] = description[q]
               /\ children'[q] = children[q] + 1
               /\ pc'[q] = "loop"
         /\ (q \in DOMAIN pc /\ pc[q] = "loop" /\ pc'[q] = "edit") =>
               description[q] = run_loop(data.hanja, WithoutUnknown(Flat(q)), 0, <<>>)]_vars

\* Elements without a class, of another class and of a class list that
\* only begins with wrap_ex have been met and skipped.
C7_Witness ==
    \E q \in Slots :
        /\ q \in DOMAIN pc
        /\ pc[q] = "edit"
        /\ Flat(q) = <<Plain(None, <<"d">>),
                       Plain(Some(<<"wrap_ex", " ", "on">>), <<"e">>),
                       Plain(Some(<<"wrap_ex">>), <<"b">>)>>
        /\ description[q] = <<"b", "\n">>

----------------------------------------------------------------------------
(* Claims about the pipeline *)

HasReading(page) == \E i \in 1..Len(page) : "txt_read" \in page[i].classes

\* C8: when the entry page holds no .txt_read element the invocation fails
\* with an error returned to the calling layer; no success text is sent and
\* no supplement request is issued.
C8_MissingReadingIsError ==
    \A q \in Slots :
        (/\ q \in DOMAIN pc
         /\ Len(sent[q]) >= 2
         /\ net[q].entry.ok
         /\ ~HasReading(net[q].entry.body)) =>
            /\ pc[q] = "Err"
            /\ Len(sent[q]) = 2
            /\ result[q] = Searching(hanja[q])

SearchRequest(q) ==
    [url |-> <<"https://dic.daum.net", "/search.do?dic=hanja&q=">> \o hanja[q],
     referer |-> None]

ViewUrl(q) == <<"https://dic.daum.net", "/word/view.do?wordid=">> \o url_back[q].val

ViewRequest(q) == [url |-> ViewUrl(q), referer |-> None]

SupwordRequest(q) ==
    [url |-> <<"https://dic.daum.net", "/word/view_supword.do?suptype=KUMSUNG_HH&wordid=">>
             \o url_back[q].val,
     referer |-> Some(ViewUrl(q))]

Success(q) == result[q] \notin {<<>>, Searching(hanja[q]), NoResult}

Alone(h, n) ==
    IF ~n.reply THEN <<"Err", <<>>>>
    ELSE IF ~n.search.ok THEN <<"Err", Searching(h)>>
    ELSE IF ~entry(n.search.body, h).some
    THEN (IF n.edit THEN <<"Ok", NoResult>> ELSE <<"Err", Searching(h)>>)
    ELSE IF ~n.entry.ok THEN <<"Err", Searching(h)>>
    ELSE IF ~read_text(Hanja_new, n.entry.body).some THEN <<"panicked", Searching(h)>>
    ELSE IF ~n.supword.ok \/ ~n.edit THEN <<"Err", Searching(h)>>
    ELSE <<"Ok", Content(h, read_text(Hanja_new, n.entry.body).val,
                         run_loop(Hanja_new, flat_map(n.supword.body), 0, <<>>))>>

\* C10: whatever the interleaving, an invocation that has ended has the
\* outcome it has when running alone on the same upstream answers, and the
\* Data value the invocations share is the one built at startup.
C10_Independence ==
    /\ data = [client |-> "reqwest::Client", hanja |-> Hanja_new]
    /\ \A q \in Slots :
          (q \in DOMAIN pc /\ pc[q] \in Terminal) =>
              <<pc[q], result[q]>> = Alone(hanja[q], net[q])

\* Two invocations over non-empty supplements have both sent their text.
C10_Witness ==
    \E q \in Slots, p \in Slots :
        /\ q \in DOMAIN pc /\ p \in DOMAIN pc /\ q # p
        /\ pc[q] = "Ok" /\ pc[p] = "Ok"
        /\ description[q] # <<>> /\ description[p] # <<>>
        /\ url_back[q] # url_back[p]

====
